---- MODULE Spec2Model ----
(***************************************************************************)
(* A model of the exml event decoder (src/exml.go): the handler tree, the  *)
(* path registration (On, OnTextOf, OnText, OnError, installHandlers) and  *)
(* the run loop (Run, handleTag, handleText) over the token stream of the  *)
(* underlying xml.Decoder.                                                 *)
(*                                                                         *)
(* A handler is a pointer in the source; here it is an index into the      *)
(* sequence d.handlers, index 1 being the top handler.  A name, a path and *)
(* a piece of character data are sequences of one-character strings.       *)
(* A user callback is identified by a label; what a callback does when it  *)
(* is called (the registrations it makes) is chosen by the caller of the   *)
(* step operators.                                                         *)
(***************************************************************************)
EXTENDS Integers, Sequences, FiniteSets, TLC

\* ------------------------------------------------------------------ bounds
MaxTokens == 3
MaxDepth == 3
MaxRegs == 2
MaxCbRegs == 1

\* ------------------------------------------------------------- input sets
Nil == 0

Names == {<<"a">>, <<"b">>}

PathChoices == {<<"a">>, <<"a", "/", "b">>}

AttrChoices == {<<>>, <<[name |-> "k", value |-> "v"]>>}

CharDataChoices == {<<" ">>, <<"x", " ">>, <<" ", "y">>}

ErrChoices == {"EOF", "SyntaxError"}

\* ------------------------------------------------------------ handler tree
topHandler == 1

\* &handler{parentHandler: h}
newHandler(parent) ==
  [tagCallback |-> Nil, textCallback |-> Nil, subHandlers |-> <<>>,
   parentHandler |-> parent, text |-> <<>>]

\* h.subHandlers[ev]: a missing key (or a nil map) reads as nil
Lookup(m, ev) == IF ev \in DOMAIN m THEN m[ev] ELSE Nil

\* h.subHandlers[ev] = sub
MapPut(m, ev, sub) ==
  [x \in (DOMAIN m) \cup {ev} |-> IF x = ev THEN sub ELSE m[x]]

NewCustomDecoder ==
  [currentHandler |-> topHandler, errorCallback |-> Nil,
   handlers |-> <<newHandler(Nil)>>, calls |-> <<>>, ncb |-> 1]

\* strings.Split(path, "/")
RECURSIVE Split(_)
Split(p) ==
  IF \A i \in 1..Len(p) : p[i] # "/"
    THEN <<p>>
    ELSE LET i == CHOOSE k \in 1..Len(p) :
                    p[k] = "/" /\ \A j \in 1..(k - 1) : p[j] # "/"
         IN <<SubSeq(p, 1, i - 1)>> \o Split(SubSeq(p, i + 1, Len(p)))

\* the loop of installHandlers without the step h = sub
RECURSIVE installLoopNoDescend(_, _, _, _)
installLoopNoDescend(d, h, events, i) ==
  LET ev == events[i]
      old == Lookup(d.handlers[h].subHandlers, ev)
      reuse == i < Len(events) /\ old # Nil
      sub == IF reuse THEN old ELSE Len(d.handlers) + 1
      hs1 == IF reuse THEN d.handlers ELSE Append(d.handlers, newHandler(h))
      hs2 == [hs1 EXCEPT ![h].subHandlers = MapPut(@, ev, sub)]
      dNew == [d EXCEPT !.handlers = hs2]
  IN IF i = Len(events) THEN [d |-> dNew, sub |-> sub]
     ELSE installLoopNoDescend(dNew, h, events, i + 1)

\* the loop of installHandlers that makes a new node for every segment
RECURSIVE installLoopNoReuse(_, _, _, _)
installLoopNoReuse(d, h, events, i) ==
  LET ev == events[i]
      sub == Len(d.handlers) + 1
      hs1 == Append(d.handlers, newHandler(h))
      hs2 == [hs1 EXCEPT ![h].subHandlers = MapPut(@, ev, sub)]
      dNew == [d EXCEPT !.handlers = hs2]
  IN IF i = Len(events) THEN [d |-> dNew, sub |-> sub]
     ELSE installLoopNoReuse(dNew, sub, events, i + 1)

\* the loop of installHandlers that takes an existing node for the last
\* segment too
RECURSIVE installLoopReuseLast(_, _, _, _)
installLoopReuseLast(d, h, events, i) ==
  LET ev == events[i]
      old == Lookup(d.handlers[h].subHandlers, ev)
      reuse == old # Nil
      sub == IF reuse THEN old ELSE Len(d.handlers) + 1
      hs1 == IF reuse THEN d.handlers ELSE Append(d.handlers, newHandler(h))
      hs2 == [hs1 EXCEPT ![h].subHandlers = MapPut(@, ev, sub)]
      dNew == [d EXCEPT !.handlers = hs2]
  IN IF i = Len(events) THEN [d |-> dNew, sub |-> sub]
     ELSE installLoopReuseLast(dNew, sub, events, i + 1)

\* the loop of installHandlers, from the i-th event on, with h the handler
\* reached so far; the result is the decoder and the last sub
RECURSIVE installLoop(_, _, _, _)
installLoop(d, h, events, i) ==
  LET ev == events[i]
      old == Lookup(d.handlers[h].subHandlers, ev)
      reuse == i < Len(events) /\ old # Nil
      sub == IF reuse THEN old ELSE Len(d.handlers) + 1
      hs1 == IF reuse THEN d.handlers ELSE Append(d.handlers, newHandler(h))
      hs2 == [hs1 EXCEPT ![h].subHandlers = MapPut(@, ev, sub)]
      dNew == [d EXCEPT !.handlers = hs2]
  IN IF i = Len(events) THEN [d |-> dNew, sub |-> sub]
     ELSE installLoop(dNew, sub, events, i + 1)

\* installHandlers that also enters the first name of the path in the
\* children of the top handler
installHandlersAlsoGlobal(d, path) ==
  LET r == installLoop(d, d.currentHandler, Split(path), 1)
      first == Lookup(r.d.handlers[d.currentHandler].subHandlers, Split(path)[1])
  IN [r EXCEPT !.d.handlers[topHandler].subHandlers =
                 MapPut(@, Split(path)[1], first)]

\* installHandlers that starts from the top handler
installHandlersAtTop(d, path) == installLoop(d, topHandler, Split(path), 1)

installHandlers(d, path) == installLoop(d, d.currentHandler, Split(path), 1)

On(d, path, callback) ==
  LET r == installHandlers(d, path)
  IN [r.d EXCEPT !.handlers[r.sub].tagCallback = callback]

OnTextOf(d, path, callback) ==
  LET r == installHandlers(d, path)
  IN [r.d EXCEPT !.handlers[r.sub].textCallback = callback]

\* OnText that also empties the buffer of the current handler
OnTextClearsBuffer(d, callback) ==
  [d EXCEPT !.handlers[d.currentHandler].textCallback = callback,
            !.handlers[d.currentHandler].text = <<>>]

\* OnText that sets the text callback of the top handler
OnTextOfTop(d, callback) ==
  [d EXCEPT !.handlers[topHandler].textCallback = callback]

OnText(d, callback) ==
  [d EXCEPT !.handlers[d.currentHandler].textCallback = callback]

OnError(d, handler) == [d EXCEPT !.errorCallback = handler]

\* ------------------------------------------------------- user callbacks
\* a registration call that also makes the top handler the current node
RegisterMovesCurrent(d, cmd) ==
  LET d1 == CASE cmd.op = "On" -> On(d, cmd.path, cmd.cb)
              [] cmd.op = "OnTextOf" -> OnTextOf(d, cmd.path, cmd.cb)
              [] cmd.op = "OnText" -> OnText(d, cmd.cb)
              [] OTHER -> OnError(d, cmd.cb)
  IN [d1 EXCEPT !.ncb = @ + 1, !.currentHandler = topHandler]

\* One registration call made by user code: op is the method called, cb the
\* label of the callback passed to it.
Register(d, cmd) ==
  LET d1 == CASE cmd.op = "On" -> On(d, cmd.path, cmd.cb)
              [] cmd.op = "OnTextOf" -> OnTextOf(d, cmd.path, cmd.cb)
              [] cmd.op = "OnText" -> OnText(d, cmd.cb)
              [] OTHER -> OnError(d, cmd.cb)
  IN [d1 EXCEPT !.ncb = @ + 1]

RECURSIVE ApplyRegs(_, _)
ApplyRegs(d, regs) ==
  IF regs = <<>> THEN d ELSE ApplyRegs(Register(d, Head(regs)), Tail(regs))

\* A record of one callback invocation, as the user observes it.
TagCall(h, cb, attrs) ==
  [kind |-> "tag", h |-> h, cb |-> cb, attrs |-> attrs, text |-> <<>>,
   err |-> ""]

TextCall(h, cb, text) ==
  [kind |-> "text", h |-> h, cb |-> cb, attrs |-> <<>>, text |-> text,
   err |-> ""]

ErrorCall(cb, err) ==
  [kind |-> "error", h |-> Nil, cb |-> cb, attrs |-> <<>>, text |-> <<>>,
   err |-> err]

\* The call of a user callback: the call is observed, then the callback
\* runs and makes the registrations regs.
Invoke(d, call, regs) ==
  ApplyRegs([d EXCEPT !.calls = Append(@, call)], regs)

\* ---------------------------------------------------------------- run loop
\* bytes.TrimSpace
IsSpace(c) == c \in {" ", "\n"}

RECURSIVE TrimLeft(_)
TrimLeft(s) ==
  IF s # <<>> /\ IsSpace(Head(s)) THEN TrimLeft(Tail(s)) ELSE s

RECURSIVE TrimRight(_)
TrimRight(s) ==
  IF s # <<>> /\ IsSpace(s[Len(s)])
    THEN TrimRight(SubSeq(s, 1, Len(s) - 1)) ELSE s

TrimSpace(s) == TrimRight(TrimLeft(s))

\* handleText without the reset of the buffer
handleTextKeepBuffer(d, regs) ==
  LET cur == d.currentHandler
      text == TrimSpace(d.handlers[cur].text)
      cb == d.handlers[cur].textCallback
  IN IF cb # Nil /\ Len(text) > 0
       THEN Invoke(d, TextCall(cur, cb, text), regs)
       ELSE d

\* handleText without the test for an empty text
handleTextNoEmptyCheck(d, regs) ==
  LET cur == d.currentHandler
      text == TrimSpace(d.handlers[cur].text)
      d1 == [d EXCEPT !.handlers[cur].text = <<>>]
      cb == d1.handlers[cur].textCallback
  IN IF cb # Nil
       THEN Invoke(d1, TextCall(cur, cb, text), regs)
       ELSE d1

\* handleText that resets the buffer only when it calls the text callback
handleTextResetWhenCalled(d, regs) ==
  LET cur == d.currentHandler
      text == TrimSpace(d.handlers[cur].text)
      d1 == [d EXCEPT !.handlers[cur].text = <<>>]
      cb == d1.handlers[cur].textCallback
  IN IF cb # Nil /\ Len(text) > 0
       THEN Invoke(d1, TextCall(cur, cb, text), regs)
       ELSE d

\* handleText that keeps the buffer when the node has no text callback
handleTextKeepWithoutCallback(d, regs) ==
  LET cur == d.currentHandler
      text == TrimSpace(d.handlers[cur].text)
      d1 == [d EXCEPT !.handlers[cur].text = <<>>]
      cb == d1.handlers[cur].textCallback
  IN IF cb = Nil THEN d
     ELSE IF Len(text) > 0
       THEN Invoke(d1, TextCall(cur, cb, text), regs)
       ELSE d1

handleText(d, regs) ==
  LET cur == d.currentHandler
      text == TrimSpace(d.handlers[cur].text)
      d1 == [d EXCEPT !.handlers[cur].text = <<>>]
      cb == d1.handlers[cur].textCallback
  IN IF cb # Nil /\ Len(text) > 0
       THEN Invoke(d1, TextCall(cur, cb, text), regs)
       ELSE d1

\* resolve that looks at the current handler before the top handler
resolveScopedFirst(d, name) ==
  LET h == Lookup(d.handlers[d.currentHandler].subHandlers, name)
  IN IF h = Nil
       THEN Lookup(d.handlers[topHandler].subHandlers, name)
       ELSE h

\* resolve that looks at the current handler only
resolveCurrentOnly(d, name) ==
  Lookup(d.handlers[d.currentHandler].subHandlers, name)

\* resolve that falls back on a handler of that name under any node
resolveAnywhere(d, name) ==
  LET h == Lookup(d.handlers[topHandler].subHandlers, name)
      c == Lookup(d.handlers[d.currentHandler].subHandlers, name)
      any == {i \in 1..Len(d.handlers) : name \in DOMAIN d.handlers[i].subHandlers}
  IN IF h # Nil THEN h
     ELSE IF c # Nil THEN c
     ELSE IF any # {}
       THEN d.handlers[CHOOSE i \in any : TRUE].subHandlers[name]
       ELSE Nil

\* the handler a start tag resolves to, or Nil
resolve(d, name) ==
  LET h == Lookup(d.handlers[topHandler].subHandlers, name)
  IN IF h = Nil /\ d.currentHandler # topHandler
       THEN Lookup(d.handlers[d.currentHandler].subHandlers, name)
       ELSE h

handleTag(d, name, attrs, regs) ==
  LET h == resolve(d, name)
  IN IF h # Nil
       THEN LET d1 == [d EXCEPT !.handlers[h].parentHandler = d.currentHandler,
                                !.currentHandler = h]
                cb == d1.handlers[h].tagCallback
            IN IF cb # Nil THEN Invoke(d1, TagCall(h, cb, attrs), regs)
               ELSE d1
       ELSE d

\* case xml.StartElement with the tag handled before the flush
RunStartElementTagFirst(d, name, attrs, textRegs, tagRegs) ==
  handleText(handleTag(d, name, attrs, tagRegs), textRegs)

\* case xml.StartElement
RunStartElement(d, name, attrs, textRegs, tagRegs) ==
  handleTag(handleText(d, textRegs), name, attrs, tagRegs)

\* case xml.CharData that appends to the buffer of the top handler
RunCharDataOnTop(d, t) ==
  [d EXCEPT !.handlers[topHandler].text = @ \o t]

\* case xml.CharData
RunCharData(d, t) ==
  [d EXCEPT !.handlers[d.currentHandler].text = @ \o t]

\* the pop of case xml.EndElement
popHandler(d) ==
  IF d.currentHandler # topHandler
    THEN [d EXCEPT !.currentHandler = d.handlers[d.currentHandler].parentHandler]
    ELSE d

\* case xml.EndElement
RunEndElement(d, textRegs) == popHandler(handleText(d, textRegs))

\* token == nil, with the error callback called for errors other than EOF only
RunTerminalErrorsOnly(d, err, regs) ==
  IF d.errorCallback # Nil /\ err # "EOF"
    THEN Invoke(d, ErrorCall(d.errorCallback, err), regs)
    ELSE d

\* token == nil, without the test of the error callback
RunTerminalNoNilCheck(d, err, regs) ==
  Invoke(d, ErrorCall(d.errorCallback, err), regs)

\* token == nil, with a flush of the pending text before the error callback
RunTerminalFlushes(d, err, regs) ==
  LET d1 == handleText(d, <<>>)
  IN IF d1.errorCallback # Nil
       THEN Invoke(d1, ErrorCall(d1.errorCallback, err), regs)
       ELSE d1

\* token == nil
RunTerminal(d, err, regs) ==
  IF d.errorCallback # Nil
    THEN Invoke(d, ErrorCall(d.errorCallback, err), regs)
    ELSE d

\* whether the flush at the next start or end tag calls a text callback
TextFires(d) ==
  /\ d.handlers[d.currentHandler].textCallback # Nil
  /\ Len(TrimSpace(d.handlers[d.currentHandler].text)) > 0

\* whether the start tag name calls a tag callback
TagFires(d, name) ==
  /\ resolve(d, name) # Nil
  /\ d.handlers[resolve(d, name)].tagCallback # Nil

\* a loop of Run that never breaks
RunReturnsNever(t) == FALSE

\* a loop of Run that breaks on an error but goes on after the end of input
RunReturnsOnErrorOnly(t) == t.type = "terminal" /\ t.err # "EOF"

\* whether Run leaves its loop after the token t: the break of token == nil
RunReturns(t) == t.type = "terminal"

\* one iteration of the loop of Run on the token t
RunToken(d, t, textRegs, tagRegs) ==
  CASE t.type = "start" -> RunStartElement(d, t.name, t.attrs, textRegs, tagRegs)
    [] t.type = "chardata" -> RunCharData(d, t.data)
    [] t.type = "end" -> RunEndElement(d, textRegs)
    [] t.type = "terminal" -> RunTerminal(d, t.err, tagRegs)
    [] OTHER -> d

\* ------------------------------------------------------------------ tokens
StartTok(name, attrs) ==
  [type |-> "start", name |-> name, attrs |-> attrs, data |-> <<>>, err |-> ""]

CharTok(data) ==
  [type |-> "chardata", name |-> <<>>, attrs |-> <<>>, data |-> data, err |-> ""]

EndTok(name) ==
  [type |-> "end", name |-> name, attrs |-> <<>>, data |-> <<>>, err |-> ""]

OtherTok ==
  [type |-> "other", name |-> <<>>, attrs |-> <<>>, data |-> <<>>, err |-> ""]

TerminalTok(err) ==
  [type |-> "terminal", name |-> <<>>, attrs |-> <<>>, data |-> <<>>, err |-> err]

NoToken ==
  [type |-> "none", name |-> <<>>, attrs |-> <<>>, data |-> <<>>, err |-> ""]

\* ------------------------------------------------------ helper functions
\* the callback returned by Assign(&v), called with c: *v = string(c)
Assign(v, c) == c

\* the callback returned by Append(&a) that puts the text in front
AppendInFront(a, c) == <<c>> \o a

\* the callback returned by Append(&a), called with c:
\* *a = append(*a, string(c))
AppendTo(a, c) == a \o <<c>>

\* Attrs.Get that keeps looking after the first match
RECURSIVE GetLast(_, _)
GetLast(a, name) ==
  IF a = <<>> THEN [val |-> "", ok |-> FALSE]
  ELSE IF a[Len(a)].name = name THEN [val |-> a[Len(a)].value, ok |-> TRUE]
  ELSE GetLast(SubSeq(a, 1, Len(a) - 1), name)

\* Attrs.Get
RECURSIVE Get(_, _)
Get(a, name) ==
  IF a = <<>> THEN [val |-> "", ok |-> FALSE]
  ELSE IF Head(a).name = name THEN [val |-> Head(a).value, ok |-> TRUE]
  ELSE Get(Tail(a), name)

\* Attrs.GetString
GetString(a, name, fallback) ==
  LET r == Get(a, name)
  IN IF ~r.ok THEN fallback ELSE r.val

\* the labels of the text callbacks Assign(&v) and Append(&a)
cbAssign == 70
cbAppend == 71

NoUser ==
  [v |-> <<>>, a |-> <<>>, attrs |-> <<>>, name |-> "", fallback |-> "",
   val |-> "", ok |-> FALSE, str |-> ""]

\* the user variables after the calls
RECURSIVE Deliver(_, _)
Deliver(u, calls) ==
  IF calls = <<>> THEN u
  ELSE LET c == Head(calls)
           u1 == CASE c.cb = cbAssign -> [u EXCEPT !.v = Assign(@, c.text)]
                   [] c.cb = cbAppend -> [u EXCEPT !.a = AppendTo(@, c.text)]
                   [] OTHER -> u
       IN Deliver(u1, Tail(calls))

\* ------------------------------------------------------------------ state
VARIABLES
  d,       \* the Decoder
  pc,      \* "setup": before Run, "run": inside Run, "done": Run returned
  open,    \* the elements the tokenizer has open, outermost first
  ntok,    \* the number of tokens read
  arrived, \* the character data tokens read since the last start or end tag
  starts,  \* the start tags read so far
  d0,      \* the Decoder as it was when Run was called
  made,    \* the registration calls made so far, each with the node that
           \* was current (at) and who made it (by)
  doc,     \* the tokens still to come, when the document is given
  d2,      \* a second Decoder that reads the same tokens as d
  last,    \* the last iteration of Run: its token, the Decoder before it
           \* (prev) and after its flush (mid), the character data that had
           \* arrived, and the element an end tag closed
  user     \* the variables of the user code: the string v given to Assign,
           \* the slice a given to Append, and the attributes, the arguments
           \* and the results of the last calls of Get and GetString

vars == <<d, pc, open, ntok, arrived, starts, d0, made, doc, d2, last, user>>

\* The registrations a callback may make when the next fresh label is n:
\* at most k calls, at most MaxRegs in the whole program.
Cmds(n) ==
  {[op |-> o, path |-> p, cb |-> n] : o \in {"On", "OnTextOf"}, p \in PathChoices}
    \cup {[op |-> "OnText", path |-> <<>>, cb |-> n]}
    \cup {[op |-> "OnError", path |-> <<>>, cb |-> n]}

RECURSIVE RegSeqs(_, _)
RegSeqs(n, k) ==
  IF k = 0 \/ n > MaxRegs THEN {<<>>}
  ELSE {<<>>} \cup {<<c>> \o s : c \in Cmds(n), s \in RegSeqs(n + 1, k - 1)}

\* the single-segment names a callback registers with On
OnNames(regs) ==
  {Split(regs[i].path)[1] : i \in {j \in 1..Len(regs) :
      regs[j].op = "On" /\ Len(Split(regs[j].path)) = 1}}

\* the label passed to the last OnText call among regs, or Nil
LastOnText(regs) ==
  LET is == {i \in 1..Len(regs) : regs[i].op = "OnText"}
  IN IF is = {} THEN Nil
     ELSE regs[CHOOSE i \in is : \A j \in is : j <= i].cb

NoFrame ==
  [name |-> <<>>, h |-> Nil, before |-> Nil, ncalls |-> 0, regd |-> {},
   ontext |-> Nil, regs |-> <<>>, kids |-> <<>>, content |-> <<>>]

NoLast ==
  [tok |-> NoToken, prev |-> NewCustomDecoder, mid |-> NewCustomDecoder,
   arrived |-> <<>>, closed |-> NoFrame]

\* the record of a registration call
Made(cmd, at, by) ==
  [op |-> cmd.op, path |-> cmd.path, cb |-> cmd.cb, at |-> at, by |-> by]

MadeBy(regs, at, by) == [i \in 1..Len(regs) |-> Made(regs[i], at, by)]

noteChild(frames, item) ==
  IF frames = <<>> THEN frames
  ELSE [frames EXCEPT ![Len(frames)].content = Append(@, item)]

Init ==
  /\ d = NewCustomDecoder
  /\ pc = "setup"
  /\ open = <<>>
  /\ ntok = 0
  /\ arrived = <<>>
  /\ starts = <<>>
  /\ d0 = NewCustomDecoder
  /\ made = <<>>
  /\ doc = <<>>
  /\ d2 = NewCustomDecoder
  /\ last = NoLast
  /\ user = NoUser

\* user code before Run: one registration call at the top level
Setup ==
  /\ pc = "setup"
  /\ \E cmd \in Cmds(d.ncb) :
       /\ d.ncb <= MaxRegs
       /\ d' = Register(d, cmd)
       /\ made' = Append(made, Made(cmd, topHandler, "setup"))
  /\ UNCHANGED <<pc, open, ntok, arrived, starts, d0, doc, d2, last, user>>

StartRun ==
  /\ pc = "setup"
  /\ pc' = "run"
  /\ d0' = d
  /\ UNCHANGED <<d, open, ntok, arrived, starts, made, doc, d2, last, user>>

\* One iteration of Run on the token t, in which the text callback (if
\* called) registers textRegs and the tag or error callback tagRegs.
Read(t, textRegs, tagRegs) ==
  LET mid == IF t.type \in {"start", "end"} THEN handleText(d, textRegs) ELSE d
      top == IF open = <<>> THEN NoFrame ELSE open[Len(open)]
  IN /\ d' = RunToken(d, t, textRegs, tagRegs)
     /\ ntok' = IF t.type = "terminal" THEN ntok ELSE ntok + 1
     /\ pc' = IF RunReturns(t) THEN "done" ELSE pc
     /\ arrived' = CASE t.type = "chardata" -> Append(arrived, t.data)
                     [] t.type \in {"start", "end"} -> <<>>
                     [] OTHER -> arrived
     /\ starts' = IF t.type = "start" THEN Append(starts, t) ELSE starts
     /\ open' =
          CASE t.type = "start" ->
                 Append(noteChild(open, [kind |-> "elem", data |-> <<>>,
                                         h |-> resolve(mid, t.name)]),
                        [name |-> t.name, h |-> resolve(mid, t.name),
                         before |-> d.currentHandler,
                         ncalls |-> Len(mid.calls),
                         regd |-> IF TagFires(mid, t.name) THEN OnNames(tagRegs)
                                  ELSE {},
                         ontext |-> IF TagFires(mid, t.name)
                                      THEN LastOnText(tagRegs) ELSE Nil,
                         regs |-> IF TagFires(mid, t.name) THEN tagRegs
                                  ELSE <<>>,
                         kids |-> IF resolve(mid, t.name) = Nil THEN <<>>
                                  ELSE d'.handlers[resolve(mid, t.name)].subHandlers,
                         content |-> <<>>])
            [] t.type = "end" -> SubSeq(open, 1, Len(open) - 1)
            [] t.type = "chardata" ->
                 noteChild(open, [kind |-> "text", data |-> t.data, h |-> Nil])
            [] OTHER -> open
     /\ last' = [tok |-> t, prev |-> d, mid |-> mid, arrived |-> arrived,
                 closed |-> IF t.type = "end" THEN top ELSE NoFrame]
     /\ made' = made \o MadeBy(textRegs, d.currentHandler, "text")
                      \o MadeBy(tagRegs,
                                 IF t.type = "start" THEN resolve(mid, t.name)
                                 ELSE d.currentHandler,
                                 IF t.type = "start" THEN "tag" ELSE "error")
     /\ user' = Deliver(user, SubSeq(RunToken(d, t, textRegs, tagRegs).calls,
                                     Len(d.calls) + 1,
                                     Len(RunToken(d, t, textRegs, tagRegs).calls)))
     /\ UNCHANGED d0

\* Run reads a start tag
StartElement ==
  /\ pc = "run" /\ ntok < MaxTokens /\ Len(open) < MaxDepth
  /\ \E name \in Names, attrs \in AttrChoices :
     \E textRegs \in (IF TextFires(d) THEN RegSeqs(d.ncb, MaxCbRegs) ELSE {<<>>}) :
     \E tagRegs \in (IF TagFires(handleText(d, textRegs), name)
                       THEN RegSeqs(handleText(d, textRegs).ncb, MaxCbRegs)
                       ELSE {<<>>}) :
       Read(StartTok(name, attrs), textRegs, tagRegs)
  /\ UNCHANGED <<doc, d2>>

\* Run reads character data
CharData ==
  /\ pc = "run" /\ ntok < MaxTokens
  /\ \E t \in CharDataChoices : Read(CharTok(t), <<>>, <<>>)
  /\ UNCHANGED <<doc, d2>>

\* Run reads the end tag of the innermost open element
EndElement ==
  /\ pc = "run" /\ ntok < MaxTokens /\ open # <<>>
  /\ \E textRegs \in (IF TextFires(d) THEN RegSeqs(d.ncb, MaxCbRegs) ELSE {<<>>}) :
       Read(EndTok(open[Len(open)].name), textRegs, <<>>)
  /\ UNCHANGED <<doc, d2>>

\* Run reads a comment, a processing instruction or a directive
OtherToken ==
  /\ pc = "run" /\ ntok < MaxTokens
  /\ Read(OtherTok, <<>>, <<>>)
  /\ UNCHANGED <<doc, d2>>

\* the tokenizer reports the end of input or an error, and Run returns
Terminal ==
  /\ pc = "run"
  /\ \E err \in ErrChoices :
       /\ err = "EOF" => open = <<>>
       /\ Read(TerminalTok(err), <<>>, <<>>)
  /\ UNCHANGED <<doc, d2>>

Next ==
  \/ Setup
  \/ StartRun
  \/ StartElement
  \/ CharData
  \/ EndElement
  \/ OtherToken
  \/ Terminal

Spec == Init /\ [][Next]_vars

\* ------------------------------------------------- given programs
\* What the callbacks of the programs below do when they are called; a
\* label that is not listed is a callback that registers nothing.
cbRoot == 20
cbNode == 21
cbA == 30
cbB == 31
cbC == 32
cbSubnode == 40
cbParent == 50
cbParentText == 51
cbChild == 52
cbChildText == 53
cbNodeText == 60
cbTopText == 61

Script(cb) ==
  CASE cb = cbRoot -> <<[op |-> "On", path |-> <<"b">>, cb |-> cbNode]>>
    [] cb = cbA -> <<[op |-> "On", path |-> <<"b">>, cb |-> cbB]>>
    [] cb = cbB -> <<[op |-> "On", path |-> <<"c">>, cb |-> cbC]>>
    [] cb = cbParent -> <<[op |-> "OnText", path |-> <<>>, cb |-> cbParentText],
                          [op |-> "On", path |-> <<"b">>, cb |-> cbChild]>>
    [] cb = cbChild -> <<[op |-> "OnText", path |-> <<>>, cb |-> cbChildText]>>
    [] cb = cbTopText -> <<[op |-> "On", path |-> <<"b">>, cb |-> cbNode]>>
    [] OTHER -> <<>>

\* the registrations of the text callback that the flush of dd calls
ScriptText(dd) ==
  IF TextFires(dd) THEN Script(dd.handlers[dd.currentHandler].textCallback)
  ELSE <<>>

\* the registrations of the tag or error callback that the token t calls
ScriptTag(dd, t) ==
  LET mid == handleText(dd, ScriptText(dd))
  IN CASE t.type = "start" /\ TagFires(mid, t.name) ->
            Script(mid.handlers[resolve(mid, t.name)].tagCallback)
       [] t.type = "terminal" /\ dd.errorCallback # Nil ->
            Script(dd.errorCallback)
       [] OTHER -> <<>>

\* one iteration of Run on a Decoder whose callbacks are the given ones
RunScripted(dd, t) == RunToken(dd, t, ScriptText(dd), ScriptTag(dd, t))

\* the programs: the registration calls made before Run
\* Test_Nested: On("root", ...) whose callback registers On("node", ...)
ProgNested == <<[op |-> "On", path |-> <<"a">>, cb |-> cbRoot]>>

\* Test_Mixed2 without the root handler: only On("root/node/subnode", ...)
ProgPath == <<[op |-> "On", path |-> <<"a", "/", "b", "/", "c">>, cb |-> cbSubnode]>>

\* the README address book: a tag callback that calls OnText and registers
\* a child whose callback calls OnText
ProgText == <<[op |-> "On", path |-> <<"a">>, cb |-> cbParent]>>

\* runTextTest3, Test_Append: OnTextOf("root/node", ...)
ProgTextOf == <<[op |-> "OnTextOf", path |-> <<"a", "/", "b">>, cb |-> cbNodeText]>>

\* Test_NestedText: On("$text", Append(&texts)), that is OnText(Append(&a))
ProgAppend == <<[op |-> "OnText", path |-> <<>>, cb |-> cbAppend]>>

\* the same with Assign(&v), as in Test_Assign
ProgAssign == <<[op |-> "OnText", path |-> <<>>, cb |-> cbAssign]>>

\* On("a", ...) whose callback registers On("b", ...) whose callback
\* registers On("c", cb)
ProgNest == <<[op |-> "On", path |-> <<"a">>, cb |-> cbA]>>

\* OnText(...) at the top level, whose callback registers On("b", ...)
ProgTopText == <<[op |-> "OnText", path |-> <<>>, cb |-> cbTopText]>>

Programs ==
  {ProgNested, ProgPath, ProgText, ProgTextOf, ProgAppend, ProgAssign,
   ProgNest, ProgTopText}

\* what may stand between the tags of a document: nothing, text, or an
\* element that none of the programs registers by itself
Fillers ==
  {<<>>, <<CharTok(<<"x", " ">>)>>,
   <<StartTok(<<"c">>, <<[name |-> "k", value |-> "v"]>>), EndTok(<<"c">>)>>}

\* the documents: <?xml?> <a> f1 <b> f2 </b> f3 <b> </b> </a>
\* and <?xml?> <a> text <b> f </b> text </a>
Docs ==
  {<<OtherTok, StartTok(<<"a">>, <<>>)>> \o f1
     \o <<StartTok(<<"b">>, at)>> \o f2 \o <<EndTok(<<"b">>)>> \o f3
     \o <<StartTok(<<"b">>, <<>>), EndTok(<<"b">>), EndTok(<<"a">>),
          TerminalTok("EOF")>> :
       f1 \in Fillers, f2 \in Fillers, f3 \in Fillers, at \in AttrChoices}
  \cup
  {<<OtherTok, StartTok(<<"a">>, <<>>), CharTok(t1), StartTok(<<"b">>, <<>>)>>
     \o f \o <<EndTok(<<"b">>), CharTok(t2), EndTok(<<"a">>),
              TerminalTok("EOF")>> :
       f \in Fillers, t1 \in CharDataChoices, t2 \in CharDataChoices}

InitDoc ==
  /\ \E prog \in Programs :
       /\ d = ApplyRegs(NewCustomDecoder, prog)
       /\ made = MadeBy(prog, topHandler, "setup")
  /\ d0 = d
  /\ doc \in Docs
  /\ pc = "run"
  /\ open = <<>>
  /\ ntok = 0
  /\ arrived = <<>>
  /\ starts = <<>>
  /\ d2 = NewCustomDecoder
  /\ last = NoLast
  /\ user = NoUser

\* Run reads the next token of the given document
DocStep ==
  /\ pc = "run" /\ doc # <<>>
  /\ Read(Head(doc), ScriptText(d), ScriptTag(d, Head(doc)))
  /\ doc' = Tail(doc)
  /\ UNCHANGED d2

SpecDoc == InitDoc /\ [][DocStep]_vars

\* Run is a loop that runs to its end: while it has not returned, the next
\* iteration happens (callbacks return)
SpecDocLive == SpecDoc /\ WF_vars(DocStep)

\* ------------------------------------------- a path and its nesting
MaxPathTokens == 6

PathNames == {<<"a">>, <<"b">>, <<"c">>}

\* On("a/b/c", cb)
ProgFlat == <<[op |-> "On", path |-> <<"a", "/", "b", "/", "c">>, cb |-> cbC]>>

InitPath ==
  /\ d = ApplyRegs(NewCustomDecoder, ProgNest)
  /\ made = MadeBy(ProgNest, topHandler, "setup")
  /\ d0 = d
  /\ d2 = ApplyRegs(NewCustomDecoder, ProgFlat)
  /\ doc = <<>>
  /\ pc = "run"
  /\ open = <<>>
  /\ ntok = 0
  /\ arrived = <<>>
  /\ starts = <<>>
  /\ last = NoLast
  /\ user = NoUser

\* the tokens the tokenizer can return next
NextTokens ==
  (IF ntok < MaxPathTokens /\ Len(open) < MaxDepth
     THEN {StartTok(n, at) : n \in PathNames, at \in AttrChoices} ELSE {})
  \cup (IF ntok < MaxPathTokens THEN {CharTok(<<"x", " ">>), OtherTok} ELSE {})
  \cup (IF ntok < MaxPathTokens /\ open # <<>>
          THEN {EndTok(open[Len(open)].name)} ELSE {})
  \cup {TerminalTok(e) : e \in {x \in ErrChoices : x = "EOF" => open = <<>>}}

\* both Decoders read the same next token
PathStep ==
  /\ pc = "run"
  /\ \E t \in NextTokens :
       /\ Read(t, ScriptText(d), ScriptTag(d, t))
       /\ d2' = RunScripted(d2, t)
  /\ UNCHANGED doc

SpecPath == InitPath /\ [][PathStep]_vars

\* ------------------------------------- registrations that share a prefix
MaxFlatRegs == 3

FlatPaths == {<<"a">>, <<"a", "/", "b">>, <<"a", "/", "b", "/", "c">>}

\* the registration calls of Test_Flat and Test_Mixed1, in any order
FlatCmds(n) ==
  {[op |-> o, path |-> p, cb |-> n] : o \in {"On", "OnTextOf"}, p \in FlatPaths}

\* <a><b><c k="v"></c></b></a>
FlatDoc ==
  <<StartTok(<<"a">>, <<>>), StartTok(<<"b">>, <<>>),
    StartTok(<<"c">>, <<[name |-> "k", value |-> "v"]>>),
    EndTok(<<"c">>), EndTok(<<"b">>), EndTok(<<"a">>), TerminalTok("EOF")>>

InitFlat ==
  /\ d = NewCustomDecoder
  /\ d0 = NewCustomDecoder
  /\ d2 = NewCustomDecoder
  /\ made = <<>>
  /\ doc = FlatDoc
  /\ pc = "setup"
  /\ open = <<>>
  /\ ntok = 0
  /\ arrived = <<>>
  /\ starts = <<>>
  /\ last = NoLast
  /\ user = NoUser

\* a call of On or OnTextOf before Run
FlatSetup ==
  /\ pc = "setup"
  /\ \E cmd \in FlatCmds(d.ncb) :
       /\ d.ncb <= MaxFlatRegs
       /\ d' = Register(d, cmd)
       /\ made' = Append(made, Made(cmd, topHandler, "setup"))
  /\ last' = [NoLast EXCEPT !.prev = d, !.mid = d]
  /\ UNCHANGED <<pc, open, ntok, arrived, starts, d0, doc, d2, user>>

FlatStep ==
  \/ FlatSetup
  \/ StartRun
  \/ DocStep

SpecFlat == InitFlat /\ [][FlatStep]_vars

\* ------------------------------------------------- the attribute readers
MaxAttrs == 3

AttrNames == {"k", "j"}

AttrValues == {"v", "w", ""}

\* the attribute lists of at most n attributes
RECURSIVE AttrSeqs(_)
AttrSeqs(n) ==
  IF n = 0 THEN {<<>>}
  ELSE {<<>>} \cup
       {<<[name |-> k, value |-> v]>> \o a :
          k \in AttrNames, v \in AttrValues, a \in AttrSeqs(n - 1)}

InitAttrs ==
  /\ user \in {[NoUser EXCEPT !.attrs = a] : a \in AttrSeqs(MaxAttrs)}
  /\ pc = "attrs"
  /\ d = NewCustomDecoder
  /\ d0 = NewCustomDecoder
  /\ d2 = NewCustomDecoder
  /\ made = <<>>
  /\ doc = <<>>
  /\ open = <<>>
  /\ ntok = 0
  /\ arrived = <<>>
  /\ starts = <<>>
  /\ last = NoLast

\* a tag callback reads an attribute with Get and with GetString
ReadAttrs ==
  /\ pc = "attrs"
  /\ \E name \in AttrNames \cup {"z"}, fallback \in {"", "d"} :
       user' = [user EXCEPT !.name = name,
                            !.fallback = fallback,
                            !.val = Get(user.attrs, name).val,
                            !.ok = Get(user.attrs, name).ok,
                            !.str = GetString(user.attrs, name, fallback)]
  /\ pc' = "read"
  /\ UNCHANGED <<d, open, ntok, arrived, starts, d0, made, doc, d2, last>>

SpecAttrs == InitAttrs /\ [][ReadAttrs]_vars

\* ------------------------------------------------------------ properties
\* the attribute sequences of the calls or start tags in s
AttrsOf(s) == [i \in 1..Len(s) |-> s[i].attrs]

\* the calls made by the last iteration of Run
NewCalls == SubSeq(d.calls, Len(last.prev.calls) + 1, Len(d.calls))

\* the calls made by the last iteration of Run after its flush
DispatchCalls == SubSeq(d.calls, Len(last.mid.calls) + 1, Len(d.calls))

RECURSIVE Flatten(_)
Flatten(ts) == IF ts = <<>> THEN <<>> ELSE Head(ts) \o Flatten(Tail(ts))

\* the global handler of the name n that was registered with a tag callback
\* before Run and is still in place, or Nil
GlobalOf(n) ==
  LET g == Lookup(d0.handlers[topHandler].subHandlers, n)
  IN IF /\ pc # "setup"
        /\ g # Nil
        /\ d0.handlers[g].tagCallback # Nil
        /\ Lookup(d.handlers[topHandler].subHandlers, n) = g
       THEN g ELSE Nil

CallsOf(h) ==
  LET IsCall(c) == c.kind = "tag" /\ c.h = h
  IN SelectSeq(d.calls, IsCall)

StartsOf(n) ==
  LET IsStart(t) == t.name = n
  IN SelectSeq(starts, IsStart)

\* C1: a handler registered with On(name, cb) at the top level before Run and
\* not registered again is called exactly once for each start tag of that
\* name, in document order and with the attributes of that tag, at any depth
\* and whatever its ancestors resolved to (also when a scoped handler of the
\* same name exists).
C1_GlobalOncePerStartTag ==
  \A n \in Names :
    GlobalOf(n) # Nil =>
      /\ AttrsOf(CallsOf(GlobalOf(n))) = AttrsOf(StartsOf(n))
      /\ \A i \in 1..Len(d.calls) :
           (d.calls[i].kind = "tag" /\ d.calls[i].h = GlobalOf(n))
             => d.calls[i].cb = d0.handlers[GlobalOf(n)].tagCallback

\* the global handler was called at depth 3, under an unmatched element and
\* inside an element of its own name
C1_Witness ==
  /\ Len(open) = 3
  /\ open[1].h = Nil
  /\ GlobalOf(open[3].name) # Nil
  /\ open[2].h = GlobalOf(open[3].name)
  /\ open[3].h = GlobalOf(open[3].name)
  /\ Len(CallsOf(GlobalOf(open[3].name))) = 2
  /\ last.tok.attrs # <<>>

\* C2: when the name of a start tag has both a global handler and a handler
\* under the current node, the global one becomes current and its tag
\* callback (if any) is the only callback the dispatch of the tag calls; the
\* scoped handler is not called.
C2_GlobalBeforeScoped ==
  last.tok.type = "start" =>
    LET n == last.tok.name
        cur == last.mid.currentHandler
        g == Lookup(last.mid.handlers[topHandler].subHandlers, n)
        s == Lookup(last.mid.handlers[cur].subHandlers, n)
        cb == last.mid.handlers[g].tagCallback
    IN (cur # topHandler /\ g # Nil /\ s # Nil) =>
         /\ d.currentHandler = g
         /\ DispatchCalls = IF cb # Nil THEN <<TagCall(g, cb, last.tok.attrs)>>
                            ELSE <<>>
         /\ \A i \in 1..Len(DispatchCalls) : DispatchCalls[i].h # s

\* a start tag whose name has a global and a scoped handler, both with a tag
\* callback, was dispatched
C2_Witness ==
  /\ last.tok.type = "start"
  /\ last.mid.currentHandler # topHandler
  /\ LET n == last.tok.name
         g == Lookup(last.mid.handlers[topHandler].subHandlers, n)
         s == Lookup(last.mid.handlers[last.mid.currentHandler].subHandlers, n)
     IN /\ g # Nil /\ s # Nil
        /\ last.mid.handlers[g].tagCallback # Nil
        /\ last.mid.handlers[s].tagCallback # Nil
        /\ Len(DispatchCalls) = 1

\* C6: after the end tag of an element whose start tag resolved to no
\* handler, the current node is the node that was current before that start
\* tag.
C6_UnmatchedElementKeepsCurrent ==
  (last.tok.type = "end" /\ last.closed.h = Nil)
    => d.currentHandler = last.closed.before

\* the handler of the innermost open element that resolved to one
InnermostMatched(frames) ==
  LET matched == {i \in 1..Len(frames) : frames[i].h # Nil}
  IN IF matched = {} THEN topHandler
     ELSE frames[CHOOSE i \in matched : \A j \in matched : j <= i].h

\* C7: between tokens, the current node is the handler resolved for the
\* innermost open element that matched one, or the top handler.
C7_CurrentIsInnermostMatched ==
  pc = "run" => d.currentHandler = InnermostMatched(open)

\* C8: a text callback is called only by the flush of a start or end tag,
\* at most once per flush, on the current node, with the trimmed
\* concatenation in arrival order of the character data tokens read since
\* the previous start or end tag.
C8_TextIsTrimmedConcatenation ==
  \A i \in 1..Len(NewCalls) :
    NewCalls[i].kind = "text" =>
      /\ i = 1
      /\ last.tok.type \in {"start", "end"}
      /\ NewCalls[i] =
           TextCall(last.prev.currentHandler,
                    last.prev.handlers[last.prev.currentHandler].textCallback,
                    TrimSpace(Flatten(last.arrived)))

\* a text callback received two tokens joined, with the inner whitespace
\* kept and the outer whitespace trimmed
C8_Witness ==
  /\ Len(NewCalls) >= 1
  /\ NewCalls[1].kind = "text"
  /\ last.arrived = << <<"x", " ">>, <<" ", "y">> >>
  /\ NewCalls[1].text = <<"x", " ", " ", "y">>

\* C9: no text callback is ever called with an empty value, and a flush of
\* an empty or all-whitespace buffer calls no text callback.
C9_BlankTextNotDelivered ==
  /\ \A i \in 1..Len(d.calls) :
       d.calls[i].kind = "text" => d.calls[i].text # <<>>
  /\ (/\ last.tok.type \in {"start", "end"}
      /\ TrimSpace(last.prev.handlers[last.prev.currentHandler].text) = <<>>)
       => last.mid.calls = last.prev.calls

\* a flush found an all-whitespace buffer on a node with a text callback
C9_Witness ==
  /\ last.tok.type \in {"start", "end"}
  /\ last.prev.handlers[last.prev.currentHandler].text # <<>>
  /\ TrimSpace(last.prev.handlers[last.prev.currentHandler].text) = <<>>
  /\ last.prev.handlers[last.prev.currentHandler].textCallback # Nil
  /\ last.mid.calls = last.prev.calls

\* C3: when the callback of the element that encloses a start tag
\* registered a handler for the name of that tag with On (the handler is
\* still the child of that name of the parent's node, and the name has no
\* global handler), the dispatch of the start tag calls the callback of that
\* handler, once, with the attributes of the tag.
C3_ScopedChildCalled ==
  (last.tok.type = "start" /\ Len(open) >= 2) =>
    LET n == last.tok.name
        p == open[Len(open) - 1]
        s == Lookup(p.kids, n)
    IN (/\ p.h # Nil
        /\ n \in p.regd
        /\ Lookup(last.mid.handlers[p.h].subHandlers, n) = s
        /\ Lookup(last.mid.handlers[topHandler].subHandlers, n) = Nil)
       => DispatchCalls =
            <<TagCall(s, last.mid.handlers[s].tagCallback, last.tok.attrs)>>

\* the calls of the callback labelled cb, as the user sees them: which kind
\* of callback and with which argument
Observed(calls, cb) ==
  LET IsCall(c) == c.cb = cb
      cs == SelectSeq(calls, IsCall)
  IN [i \in 1..Len(cs) |->
        [kind |-> cs[i].kind, attrs |-> cs[i].attrs, text |-> cs[i].text]]

\* C4: after every token, the calls of cb made by the Decoder with
\* On("a/b/c", cb) are the calls of cb made by the Decoder with the nested
\* registrations On("a") > On("b") > On("c", cb): as many, in the same
\* order, with the same attributes.
C4_PathEqualsNesting ==
  Observed(d2.calls, cbC) = Observed(d.calls, cbC)

\* cb was called for two c elements of one a/b, and an element in between
\* resolved to no handler
C4_Witness ==
  /\ Len(Observed(d2.calls, cbC)) = 2
  /\ Observed(d2.calls, cbC)[1].attrs # Observed(d2.calls, cbC)[2].attrs
  /\ Len(open) = 3
  /\ Len(open[2].content) = 2

\* C5: with On("a/b/c", cb) as the only registration, the start tag of a c
\* element inside a b element inside an a element calls cb, once, with the
\* attributes of the tag.
C5_PathThroughUnregisteredNodes ==
  (/\ Len(made) = 1
   /\ made[1].op = "On"
   /\ made[1].path = <<"a", "/", "b", "/", "c">>
   /\ made[1].at = topHandler
   /\ last.tok.type = "start"
   /\ Len(open) >= 3
   /\ open[Len(open)].name = <<"c">>
   /\ open[Len(open) - 1].name = <<"b">>
   /\ open[Len(open) - 2].name = <<"a">>)
  => /\ Len(DispatchCalls) = 1
     /\ DispatchCalls[1].kind = "tag"
     /\ DispatchCalls[1].cb = made[1].cb
     /\ DispatchCalls[1].attrs = last.tok.attrs

\* the texts that the text callback of the handler h received since the
\* n-th call
TextsSince(h, n) ==
  LET IsText(c) == c.kind = "text" /\ c.h = h
      cs == SelectSeq(SubSeq(d.calls, n + 1, Len(d.calls)), IsText)
  IN [i \in 1..Len(cs) |-> cs[i].text]

\* C10: at the end tag of an element that resolved to a handler with a text
\* callback and whose content was text, a child element that resolved to
\* another handler, and text again (both texts not blank), the text callback
\* of the element has been called twice since its start tag: with the first
\* text trimmed, then with the second text trimmed.
C10_MixedContentTwoTexts ==
  (/\ last.tok.type = "end"
   /\ last.closed.h # Nil
   /\ last.prev.handlers[last.closed.h].textCallback # Nil
   /\ Len(last.closed.content) = 3
   /\ last.closed.content[1].kind = "text"
   /\ last.closed.content[2].kind = "elem"
   /\ last.closed.content[2].h # Nil
   /\ last.closed.content[2].h # last.closed.h
   /\ last.closed.content[3].kind = "text"
   /\ TrimSpace(last.closed.content[1].data) # <<>>
   /\ TrimSpace(last.closed.content[3].data) # <<>>)
  => TextsSince(last.closed.h, last.closed.ncalls)
       = <<TrimSpace(last.closed.content[1].data),
           TrimSpace(last.closed.content[3].data)>>

\* the element that encloses the character data flushed by the last
\* iteration of Run, or NoFrame at the document level
Enclosing ==
  CASE last.tok.type = "end" -> last.closed
    [] last.tok.type = "start" /\ Len(open) >= 2 -> open[Len(open) - 1]
    [] OTHER -> NoFrame

\* C11: when OnText(cb) was called before Run (and the text callback of the
\* top handler was not replaced since), every flush of a text that is not
\* blank calls cb with the trimmed text, unless the element that encloses the
\* text resolved to a handler that has a text callback of its own.
C11_TopTextEverywhere ==
  LET g == d0.handlers[topHandler].textCallback
      text == TrimSpace(Flatten(last.arrived))
  IN (/\ last.tok.type \in {"start", "end"}
      /\ g # Nil
      /\ last.prev.handlers[topHandler].textCallback = g
      /\ text # <<>>
      /\ ~(/\ Enclosing.h # Nil
           /\ last.prev.handlers[Enclosing.h].textCallback # Nil))
     => \E i \in 1..Len(NewCalls) :
          NewCalls[i].kind = "text" /\ NewCalls[i].cb = g /\ NewCalls[i].text = text

\* C12: with OnTextOf("a/b", cb) as the only registration, the end tag of a
\* b element directly inside the root element a, whose content is one text
\* that is not blank, calls cb, once, with the trimmed text.
C12_TextOfPath ==
  (/\ Len(made) = 1
   /\ made[1].op = "OnTextOf"
   /\ made[1].path = <<"a", "/", "b">>
   /\ made[1].at = topHandler
   /\ last.tok.type = "end"
   /\ last.closed.name = <<"b">>
   /\ Len(open) = 1
   /\ open[1].name = <<"a">>
   /\ Len(last.closed.content) = 1
   /\ last.closed.content[1].kind = "text"
   /\ TrimSpace(last.closed.content[1].data) # <<>>)
  => /\ Len(NewCalls) = 1
     /\ NewCalls[1].kind = "text"
     /\ NewCalls[1].cb = made[1].cb
     /\ NewCalls[1].text = TrimSpace(last.closed.content[1].data)

\* whether the character data flushed by the last iteration of Run is the
\* first text of the element e: no child element came before it
FirstText(e) ==
  \A i \in 1..Len(e.content) :
    e.content[i].kind = "elem" => (i = Len(e.content) /\ last.tok.type = "start")

C14_ChildUsesOwnOccurrence ==
  (last.tok.type = "start" /\ Len(open) >= 2) =>
    LET n == last.tok.name
        p == open[Len(open) - 1]
    IN (/\ p.h # Nil
        /\ n \in p.regd
        /\ Lookup(last.mid.handlers[topHandler].subHandlers, n) = Nil)
       => \A i \in 1..Len(DispatchCalls) : DispatchCalls[i].h = Lookup(p.kids, n)

\* the calls of an error callback among calls
ErrorCalls(calls) ==
  LET IsError(c) == c.kind = "error"
  IN SelectSeq(calls, IsError)

\* C15: while Run has not returned no error callback has been called; when
\* Run returns and an error callback is registered at that moment, it has
\* been called exactly once in the Run, as the last call, with the value the
\* tokenizer reported (end of input or a syntax error).
C15_ErrorCallbackOnce ==
  /\ pc = "run" => ErrorCalls(d.calls) = <<>>
  /\ (pc = "done" /\ last.prev.errorCallback # Nil) =>
       /\ NewCalls = <<ErrorCall(last.prev.errorCallback, last.tok.err)>>
       /\ ErrorCalls(d.calls) = NewCalls

\* Run returned on a syntax error inside an open element, after other
\* callbacks had been called, and the error callback was called
C15_Witness ==
  /\ pc = "done"
  /\ last.tok.err = "SyntaxError"
  /\ open # <<>>
  /\ Len(d.calls) >= 2
  /\ d.calls[Len(d.calls)].kind = "error"

\* C16: when Run returns and no error callback is registered at that
\* moment, the terminal condition calls no callback and leaves the Decoder as
\* it was.
C16_NoErrorCallbackSilent ==
  (pc = "done" /\ last.prev.errorCallback = Nil) =>
    /\ NewCalls = <<>>
    /\ d = last.prev

\* Run returned on a syntax error inside an open element without an error
\* callback, after another callback had been called
C16_Witness ==
  /\ pc = "done"
  /\ last.tok.err = "SyntaxError"
  /\ open # <<>>
  /\ d.errorCallback = Nil
  /\ Len(d.calls) >= 1

\* C17: Run reads one token of the document per iteration, has returned
\* only if the last token it read is the terminal one, and eventually
\* returns.
C17_RunTerminates ==
  /\ [](pc = "done" <=> last.tok.type = "terminal")
  /\ [][ntok' + Len(doc') = ntok + Len(doc) - (IF pc' = "done" THEN 1 ELSE 0)]_vars
  /\ <>(pc = "done")

\* Run returned after it read a whole document of eleven tokens
C17_Witness ==
  /\ pc = "done"
  /\ doc = <<>>
  /\ ntok >= 11

\* C18: when a start tag is resolved to a handler S that is the child of
\* name k of a node P other than the top handler, then k is the name of the
\* tag, P is the current node at that start tag, and the top handler has no
\* child of that name.
C18_ScopedOnlyUnderParent ==
  last.tok.type = "start" =>
    LET n == last.tok.name
        S == open[Len(open)].h
        hs == last.mid.handlers
    IN S # Nil =>
         \A P \in 1..Len(hs) : \A k \in DOMAIN hs[P].subHandlers :
           (P # topHandler /\ hs[P].subHandlers[k] = S) =>
             /\ k = n
             /\ last.mid.currentHandler = P
             /\ Lookup(hs[topHandler].subHandlers, n) = Nil

\* a start tag was resolved to a handler registered under a node other than
\* the top handler and its callback was called; the outermost open element
\* has the same name and had resolved to nothing at the top level
C18_Witness ==
  /\ last.tok.type = "start"
  /\ Len(open) = 3
  /\ open[1].name = last.tok.name
  /\ open[1].h = Nil
  /\ open[3].h \notin {Nil, open[2].h}
  /\ \A k \in DOMAIN last.mid.handlers[topHandler].subHandlers :
       last.mid.handlers[topHandler].subHandlers[k] # open[3].h
  /\ Len(DispatchCalls) = 1

\* the node that the names events lead to from the node h, or Nil
RECURSIVE Walk(_, _, _)
Walk(hs, h, events) ==
  IF events = <<>> THEN h
  ELSE IF Head(events) \in DOMAIN hs[h].subHandlers
    THEN Walk(hs, hs[h].subHandlers[Head(events)], Tail(events))
    ELSE Nil

\* the callback that the registration op sets on a node
CallbackSet(node, op) ==
  IF op = "On" THEN node.tagCallback ELSE node.textCallback

\* C19: after a call of On or OnTextOf made before Run, the path leads from
\* the top handler to a node that carries the callback; after the last such
\* call made by the tag callback of a start tag, the path leads from the
\* handler of that element, which is the current node, to a node created by
\* the call that carries the callback, and the children of the top handler
\* are what they were.
C19_PathRelativeToCurrent ==
  /\ (pc = "setup" /\ made # <<>>) =>
       LET m == made[Len(made)]
           t == Walk(d.handlers, topHandler, Split(m.path))
       IN /\ d.currentHandler = topHandler
          /\ m.op \in {"On", "OnTextOf"} =>
               (t # Nil /\ CallbackSet(d.handlers[t], m.op) = m.cb)
  /\ (last.tok.type = "start" /\ open[Len(open)].regs # <<>>) =>
       LET rs == open[Len(open)].regs
           m == rs[Len(rs)]
           N == open[Len(open)].h
           t == Walk(d.handlers, N, Split(m.path))
       IN m.op \in {"On", "OnTextOf"} =>
            /\ N \notin {Nil, topHandler}
            /\ d.currentHandler = N
            /\ t # Nil
            /\ t > Len(last.mid.handlers)
            /\ CallbackSet(d.handlers[t], m.op) = m.cb
            /\ d.handlers[topHandler].subHandlers
                 = last.mid.handlers[topHandler].subHandlers

\* the tag callback of an element registered a text callback for the path
\* a/b, which created two nodes under the handler of the element
C19_Witness ==
  /\ last.tok.type = "start"
  /\ open[Len(open)].regs # <<>>
  /\ open[Len(open)].regs[1].op = "OnTextOf"
  /\ open[Len(open)].regs[1].path = <<"a", "/", "b">>
  /\ Len(d.handlers) = Len(last.mid.handlers) + 2

\* the labels of the callbacks called, in order
CbsOf(calls) == [i \in 1..Len(calls) |-> calls[i].cb]

\* C20: a call of On or OnTextOf leaves every node that a proper prefix of
\* its path led to in place, with its tag callback, its text callback and its
\* children of other names; and after On("a", c1), On("a/b", c2),
\* On("a/b/c", c3) the start tags <a><b><c> call c1, c2, c3.
C20_IntermediateReuse ==
  /\ (pc = "setup" /\ made # <<>>) =>
       LET ev == Split(made[Len(made)].path)
           old(i) == Walk(last.prev.handlers, topHandler, SubSeq(ev, 1, i))
       IN \A i \in 1..(Len(ev) - 1) :
            old(i) # Nil =>
              /\ Walk(d.handlers, topHandler, SubSeq(ev, 1, i)) = old(i)
              /\ d.handlers[old(i)].tagCallback
                   = last.prev.handlers[old(i)].tagCallback
              /\ d.handlers[old(i)].textCallback
                   = last.prev.handlers[old(i)].textCallback
              /\ \A k \in DOMAIN last.prev.handlers[old(i)].subHandlers :
                   k # ev[i + 1] =>
                     Lookup(d.handlers[old(i)].subHandlers, k)
                       = last.prev.handlers[old(i)].subHandlers[k]
  /\ (/\ Len(made) = 3
      /\ \A i \in 1..3 : made[i].op = "On"
      /\ made[1].path = <<"a">>
      /\ made[2].path = <<"a", "/", "b">>
      /\ made[3].path = <<"a", "/", "b", "/", "c">>
      /\ ntok = 3)
     => CbsOf(d.calls) = <<made[1].cb, made[2].cb, made[3].cb>>

\* the three registrations of Test_Flat were made, the second and the third
\* on top of existing nodes, and the three callbacks were called
C20_Witness ==
  /\ Len(made) = 3
  /\ made[1].path = <<"a">>
  /\ made[2].path = <<"a", "/", "b">>
  /\ made[3].path = <<"a", "/", "b", "/", "c">>
  /\ Len(d0.handlers) = 4
  /\ ntok = 3
  /\ Len(d.calls) = 3

\* the nodes that the children maps lead to from the nodes in set
RECURSIVE Reach(_, _)
Reach(hs, set) ==
  LET next == set \cup
                {hs[P].subHandlers[k] :
                   <<P, k>> \in {pk \in set \X UNION {DOMAIN hs[Q].subHandlers : Q \in set} :
                                   pk[2] \in DOMAIN hs[pk[1]].subHandlers}}
  IN IF next = set THEN set ELSE Reach(hs, next)

\* the nodes that the children maps lead to from the top handler
Tree(hs) == Reach(hs, {topHandler})

\* C21 as stated: a start tag is never resolved to a node that a later
\* registration replaced in its slot, nor to a handler registered beneath
\* such a node: the node it is resolved to is one that the children maps lead
\* to from the top handler.
C21_ReplacedSubtreeUnreachable ==
  (last.tok.type = "start" /\ open[Len(open)].h # Nil)
    => open[Len(open)].h \in Tree(last.mid.handlers)

\* C21 amended: the last On or OnTextOf call of a tag callback puts a node
\* created by the call at the end of its path; a node that a tag callback
\* removed from a slot is in no children map afterwards and keeps its
\* callbacks and children; and a start tag is resolved to a node outside the
\* tree of the top handler only as a child of the current node (a replaced
\* node that is still current, or a node beneath it).
C21_FreshTerminalNode ==
  last.tok.type = "start" =>
    LET f == open[Len(open)]
        old == last.mid.handlers
        new == d.handlers
    IN /\ (f.regs # <<>> /\ f.regs[Len(f.regs)].op \in {"On", "OnTextOf"}) =>
            Walk(new, f.h, Split(f.regs[Len(f.regs)].path)) > Len(old)
       /\ \A R \in 1..Len(old) :
            (/\ \E P \in 1..Len(old) : \E k \in DOMAIN old[P].subHandlers :
                  old[P].subHandlers[k] = R /\ new[P].subHandlers[k] # R)
            => /\ \A Q \in 1..Len(new) : \A j \in DOMAIN new[Q].subHandlers :
                    new[Q].subHandlers[j] # R
               /\ new[R].tagCallback = old[R].tagCallback
               /\ new[R].textCallback = old[R].textCallback
               /\ new[R].subHandlers = old[R].subHandlers
       /\ (f.h # Nil /\ f.h \notin Tree(old)) =>
            /\ last.mid.currentHandler \notin Tree(old)
            /\ f.h \in {old[last.mid.currentHandler].subHandlers[k] :
                          k \in DOMAIN old[last.mid.currentHandler].subHandlers}

\* a start tag was resolved to a child of a node that had been replaced in
\* its slot while its element was open, and the callback of the child was
\* called
C21_Witness ==
  /\ last.tok.type = "start"
  /\ open[Len(open)].h # Nil
  /\ open[Len(open)].h \notin Tree(last.mid.handlers)
  /\ Len(DispatchCalls) = 1

\* C22 as stated: every callback that an iteration of Run calls was
\* registered before the iteration read its token (labels are given in the
\* order of registration).
C22_OnlyLaterTokens ==
  \A i \in 1..Len(NewCalls) : NewCalls[i].cb < last.prev.ncb

\* C22 amended: the registrations made by a tag callback or an error
\* callback cause no call in the same iteration, and those made by the text
\* callback of a flush cause no text call in it (they do take part in the
\* resolution of the start tag that follows the flush); and no registration
\* changes the current node: after the flush it is what it was, after a
\* start tag it is the handler the tag was resolved to, if any, and after an
\* end tag the node the pop leads to.
C22_RegistrationsAndTheCurrentToken ==
  /\ \A i \in 1..Len(NewCalls) :
       /\ NewCalls[i].kind = "text" => NewCalls[i].cb < last.prev.ncb
       /\ NewCalls[i].kind # "text" => NewCalls[i].cb < last.mid.ncb
  /\ last.mid.currentHandler = last.prev.currentHandler
  /\ last.tok.type = "start" =>
       d.currentHandler = IF open[Len(open)].h # Nil THEN open[Len(open)].h
                          ELSE last.prev.currentHandler
  /\ last.tok.type = "end" =>
       d.currentHandler =
         IF last.prev.currentHandler = topHandler THEN topHandler
         ELSE last.prev.handlers[last.prev.currentHandler].parentHandler
  /\ last.tok.type \notin {"start", "end"} =>
       d.currentHandler = last.prev.currentHandler

\* the text callback called by the flush of a start tag registered a handler
\* and the tag callback of that handler was called for the same start tag
C22_Witness ==
  /\ last.tok.type = "start"
  /\ Len(NewCalls) = 2
  /\ NewCalls[1].kind = "text"
  /\ NewCalls[2].kind = "tag"
  /\ NewCalls[2].cb >= last.prev.ncb

\* whether the parent links lead from the node h to the top handler in at
\* most n steps
RECURSIVE LeadsToTop(_, _, _)
LeadsToTop(hs, h, n) ==
  IF h = topHandler THEN TRUE
  ELSE IF n = 0 \/ h = Nil THEN FALSE
  ELSE LeadsToTop(hs, hs[h].parentHandler, n - 1)

\* C23: the parent links lead from the current node to the top handler
\* (without a cycle: in no more steps than there are nodes).
C23_ParentChainReachesTop ==
  LeadsToTop(d.handlers, d.currentHandler, Len(d.handlers))

\* C26: when the end tag closes an element resolved to the handler H inside
\* an element resolved to H too, H is the current node afterwards; and when
\* the end tag closes an element resolved to H whose only child is an
\* element resolved to H, the current node afterwards is the node that was
\* current before the start tag of the closed element.
C26_ReentrantHandlerRestores ==
  last.tok.type = "end" =>
    /\ (/\ last.closed.h # Nil
        /\ open # <<>>
        /\ open[Len(open)].h = last.closed.h)
       => d.currentHandler = last.closed.h
    /\ (/\ last.closed.h # Nil
        /\ Len(last.closed.content) = 1
        /\ last.closed.content[1].kind = "elem"
        /\ last.closed.content[1].h = last.closed.h)
       => d.currentHandler = last.closed.before

\* C24: Get returns the value of the first attribute of the given name and
\* true, or the empty string and false when there is none; GetString returns
\* that value when there is one (also when it is empty) and the fallback
\* otherwise.
C24_AttributeReaders ==
  pc = "read" =>
    LET is == {i \in 1..Len(user.attrs) : user.attrs[i].name = user.name}
        first == CHOOSE i \in is : \A j \in is : i <= j
    IN IF is = {}
         THEN user.val = "" /\ ~user.ok /\ user.str = user.fallback
         ELSE /\ user.val = user.attrs[first].value
              /\ user.ok
              /\ user.str = user.attrs[first].value

\* the name read is the name of the second and the third attribute, which
\* have different values, and not of the first
C24_Witness ==
  /\ pc = "read"
  /\ Len(user.attrs) = 3
  /\ user.attrs[1].name # user.name
  /\ user.attrs[2].name = user.name
  /\ user.attrs[3].name = user.name
  /\ user.attrs[2].value # user.attrs[3].value
  /\ user.attrs[2].value = ""
  /\ user.fallback # ""
  /\ user.str = ""

\* the texts that the callback labelled cb received, in order
TextsOf(calls, cb) ==
  LET IsCall(c) == c.kind = "text" /\ c.cb = cb
      cs == SelectSeq(calls, IsCall)
  IN [i \in 1..Len(cs) |-> cs[i].text]

\* C25: the slice given to Append holds the texts delivered to its callback,
\* one entry per call, in the order of the calls; the string given to
\* Assign holds the text of the last call of its callback (and is untouched
\* before the first call).
C25_AppendAndAssign ==
  /\ user.a = TextsOf(d.calls, cbAppend)
  /\ user.v = IF TextsOf(d.calls, cbAssign) = <<>> THEN <<>>
              ELSE TextsOf(d.calls, cbAssign)[Len(TextsOf(d.calls, cbAssign))]

\* three texts were delivered to the callback of Append, the first two
\* different
C25_Witness ==
  /\ Len(user.a) = 3
  /\ user.a[1] # user.a[2]
  /\ Len(TextsOf(d.calls, cbAppend)) = 3

\* C27: in the iteration of a start or end tag, a text call comes before
\* any tag call and is made on the node that was current before the tag,
\* whose buffer is empty afterwards; a tag call is made on the handler the
\* tag was resolved to; and an end tag moves the current node only after the
\* text call, to the parent of the node the text call was made on.
C27_FlushBeforeDispatch ==
  last.tok.type \in {"start", "end"} =>
    LET cur == last.prev.currentHandler
    IN /\ \A i \in 1..Len(NewCalls) :
            /\ NewCalls[i].kind = "text" =>
                 /\ i = 1
                 /\ NewCalls[i].h = cur
                 /\ NewCalls[i].cb = last.prev.handlers[cur].textCallback
            /\ NewCalls[i].kind = "tag" =>
                 /\ i = Len(NewCalls)
                 /\ last.tok.type = "start"
                 /\ NewCalls[i].h = d.currentHandler
       /\ Len(NewCalls) <= 2
       /\ d.handlers[cur].text = <<>>
       /\ (/\ last.prev.handlers[cur].textCallback # Nil
           /\ TrimSpace(last.prev.handlers[cur].text) # <<>>)
          => (NewCalls # <<>> /\ NewCalls[1].kind = "text")
       /\ (last.tok.type = "end" /\ cur # topHandler) =>
            d.currentHandler = last.prev.handlers[cur].parentHandler

\* a start tag called the text callback of the node that was current and
\* then the tag callback of the handler it was resolved to
C27_Witness ==
  /\ last.tok.type = "start"
  /\ Len(NewCalls) = 2
  /\ NewCalls[1].kind = "text"
  /\ NewCalls[2].kind = "tag"
  /\ NewCalls[1].h # NewCalls[2].h
  /\ d.currentHandler # last.prev.currentHandler

\* C28: while Run runs, the buffer of the current node holds exactly the
\* character data tokens read since the last start or end tag, in order; a
\* character data token does not move the current node; and a text call is
\* made on the node that was current when those tokens arrived, with those
\* tokens, after which none of them is pending on any node.
C28_TextDeliveredOnceToItsNode ==
  /\ pc = "run" => d.handlers[d.currentHandler].text = Flatten(arrived)
  /\ last.tok.type \in {"chardata", "other"} =>
       /\ d.currentHandler = last.prev.currentHandler
       /\ NewCalls = <<>>
  /\ \A i \in 1..Len(NewCalls) :
       NewCalls[i].kind = "text" =>
         /\ NewCalls[i].h = last.prev.currentHandler
         /\ last.prev.handlers[NewCalls[i].h].text = Flatten(last.arrived)
         /\ NewCalls[i].text = TrimSpace(Flatten(last.arrived))
         /\ \A j \in 1..Len(NewCalls) : NewCalls[j].kind = "text" => j = i
         /\ arrived = <<>>
         /\ \A h \in 1..Len(d.handlers) : d.handlers[h].text = <<>>

\* two character data tokens arrived on one node, and a start tag delivered
\* them in one call to the text callback of that node before it made
\* another node current
C28_Witness ==
  /\ last.tok.type = "start"
  /\ Len(last.arrived) = 2
  /\ NewCalls # <<>>
  /\ NewCalls[1].kind = "text"
  /\ NewCalls[1].h = last.prev.currentHandler
  /\ d.currentHandler # NewCalls[1].h

\* C29: between tokens every node other than the current one has an empty
\* buffer; and after the flush of a start or end tag, which is when the text
\* callback and the tag callback are called, every node has an empty buffer.
C29_OnlyCurrentBufferPending ==
  /\ \A h \in 1..Len(d.handlers) :
       h # d.currentHandler => d.handlers[h].text = <<>>
  /\ last.tok.type \in {"start", "end"} =>
       /\ \A h \in 1..Len(last.mid.handlers) : last.mid.handlers[h].text = <<>>
       /\ \A h \in 1..Len(d.handlers) : d.handlers[h].text = <<>>

\* an end tag flushed text on a node without a text callback and made
\* another node current
C29_Witness ==
  /\ last.tok.type = "end"
  /\ last.prev.handlers[last.prev.currentHandler].text # <<>>
  /\ last.prev.handlers[last.prev.currentHandler].textCallback = Nil
  /\ d.currentHandler # last.prev.currentHandler

\* C30: character data read while the innermost open element is one whose
\* start tag was resolved to no handler is appended to the buffer of the
\* handler of the nearest enclosing element that was resolved to one, or of
\* the top handler when there is none.
C30_TextInsideUnmatchedElement ==
  (/\ last.tok.type = "chardata"
   /\ open # <<>>
   /\ open[Len(open)].h = Nil)
  => d.handlers[InnermostMatched(open)].text
       = last.prev.handlers[InnermostMatched(open)].text \o last.tok.data

\* C31: the iteration of Run that meets the terminal condition calls no tag
\* callback and no text callback, and the error callback, when there is one,
\* as its only call; Run has then returned, and nothing is called and the
\* Decoder does not change after it.
C31_NothingAfterTerminal ==
  /\ [](last.tok.type = "terminal" =>
          /\ pc = "done"
          /\ \A i \in 1..Len(NewCalls) : NewCalls[i].kind = "error"
          /\ last.prev.errorCallback # Nil =>
               /\ d.calls # <<>>
               /\ d.calls[Len(d.calls)]
                    = ErrorCall(last.prev.errorCallback, last.tok.err))
  /\ [][last.tok.type = "terminal" => d' = d]_vars

\* Run called a tag or text callback, then met the terminal condition and
\* called the error callback
C31_Witness ==
  /\ pc = "done"
  /\ last.tok.type = "terminal"
  /\ Len(d.calls) >= 2
  /\ d.calls[1].kind \in {"tag", "text"}
  /\ d.calls[Len(d.calls)].kind = "error"

C33_PendingTextAtTerminalNotDelivered ==
  last.tok.type = "terminal" =>
    /\ \A i \in 1..Len(NewCalls) : NewCalls[i].kind # "text"
    /\ \A h \in 1..Len(last.prev.handlers) :
         d.handlers[h].text = last.prev.handlers[h].text
    /\ d.handlers[d.currentHandler].text = Flatten(arrived)
    /\ d.currentHandler = last.prev.currentHandler
    /\ pc = "done"

\* the tokenizer reported an error inside an open element whose node has a
\* text callback and non-blank pending text
C33_Witness ==
  /\ last.tok.type = "terminal"
  /\ last.tok.err # "EOF"
  /\ open # <<>>
  /\ d.currentHandler # topHandler
  /\ d.handlers[d.currentHandler].textCallback # Nil
  /\ TrimSpace(d.handlers[d.currentHandler].text) # <<>>

\* C34: when Run returns at the end of input, after every start tag has been
\* closed by its end tag, the top handler is the current node.
C34_CurrentIsTopAfterDocument ==
  (pc = "done" /\ last.tok.type = "terminal" /\ last.tok.err = "EOF"
     /\ open = <<>>)
  => d.currentHandler = topHandler

\* whether the Decoder d1 has the current node, the parent links and the
\* buffers of the Decoder dd
SameContext(dd, d1) ==
  /\ d1.currentHandler = dd.currentHandler
  /\ Len(d1.handlers) >= Len(dd.handlers)
  /\ \A h \in 1..Len(dd.handlers) :
       /\ d1.handlers[h].parentHandler = dd.handlers[h].parentHandler
       /\ d1.handlers[h].text = dd.handlers[h].text

\* the Decoders in which user code can make a registration call: the one
\* between two tokens and the one between the flush and the dispatch of the
\* last token
RegistrationPoints == {d, last.mid}

\* C35: a call of On, OnTextOf, OnText or OnError, whatever its arguments
\* and wherever it is made, leaves the current node, the parent link of every
\* existing node and the buffer of every existing node as they were; and a
\* registration call made before Run has left them as NewCustomDecoder made
\* them.
C35_RegistrationKeepsContext ==
  /\ \A dd \in RegistrationPoints : \A cmd \in Cmds(dd.ncb) :
       SameContext(dd, Register(dd, cmd))
  /\ d0.currentHandler = topHandler
  /\ d0.handlers[topHandler].parentHandler = Nil
  /\ \A h \in 1..Len(d0.handlers) : d0.handlers[h].text = <<>>

\* a tag callback made a registration call at depth two: its node is
\* current, the node of the enclosing element is its parent, and text is
\* pending on it since
C35_Witness ==
  /\ made # <<>>
  /\ made[Len(made)].by = "tag"
  /\ made[Len(made)].at = d.currentHandler
  /\ d.handlers[d.currentHandler].parentHandler \notin {Nil, topHandler}
  /\ d.handlers[d.currentHandler].text # <<>>

\* the children and the callbacks of a node
Registered(node) ==
  [subHandlers |-> node.subHandlers, tagCallback |-> node.tagCallback,
   textCallback |-> node.textCallback]

\* the existing nodes that the names events lead through from the node h,
\* h included
RECURSIVE PathNodes(_, _, _)
PathNodes(hs, h, events) ==
  IF events = <<>> \/ Head(events) \notin DOMAIN hs[h].subHandlers THEN {h}
  ELSE {h} \cup PathNodes(hs, hs[h].subHandlers[Head(events)], Tail(events))

\* the nodes on the chain of parent links from the node h, h excluded, in at
\* most n steps
RECURSIVE Ancestors(_, _, _)
Ancestors(hs, h, n) ==
  IF n = 0 \/ hs[h].parentHandler = Nil THEN {}
  ELSE {hs[h].parentHandler} \cup Ancestors(hs, hs[h].parentHandler, n - 1)

====
